---------------------------- MODULE Spec2Model ----------------------------
(***************************************************************************)
(* Timeline / splice engine of the video splicer (src/src/script.js).      *)
(*                                                                         *)
(* The engine is a set of pure functions over JavaScript values.  The      *)
(* model keeps the two things the functions' results depend on:            *)
(*                                                                         *)
(*  - JavaScript values.  A value is a record with a `kind`: "undefined",  *)
(*    "null", "NaN", "Infinity", "number", "string", "array" or "object".  *)
(*                                                                         *)
(*  - JavaScript Number arithmetic.  Every + - * / of the source is the    *)
(*    exact result rounded to the nearest representable number, ties to    *)
(*    even (IEEE-754).  A finite number is held as an integer count of     *)
(*    2^-FracBits; the significand is MantissaBits wide instead of 53, so  *)
(*    that rounding happens on numbers TLC can enumerate.                  *)
(*                                                                         *)
(* Spec is a caller that invokes one function at a time and reads its      *)
(* return value.  ShellSpec is the application shell: the session state    *)
(* and the event handlers of initializeUI, an async handler being one      *)
(* action for each stretch between two awaits.  ControllerSpec is a client *)
(* of createTimelineController: it calls setSegments, seek, play and pause *)
(* and lets the video fire timeupdate.                                     *)
(***************************************************************************)
EXTENDS Integers, Sequences, FiniteSets, TLC

VARIABLES
  op,     \* the function whose call is recorded ("idle" before any call)
  args,   \* the arguments of that call
  ret,    \* the value it returned
  heap,   \* the caller's objects in memory once the call has returned
  state,       \* the session: `state` of the application shell
  controller,  \* the timeline controller's activeIndex, segments, playing
  clock,       \* what Date.now() returns
  pending      \* the handlers waiting at an await

\* The variables of a caller of the pure functions, and those of the shell.
caller == <<op, args, ret, heap>>

shell == <<state, controller, clock, pending>>

vars == <<op, args, ret, heap, state, controller, clock, pending>>

---------------------------------------------------------------------------
(* Bounds of the model *)

\* Width of the significand of a Number (53 in the engine's runtime).
MantissaBits == 4

\* Longest segment list a caller passes.
MaxSegments == 3

\* Largest frame index and fps a caller passes.
MaxFrame == 16

MaxFps == 16

---------------------------------------------------------------------------
(* Number arithmetic *)

RECURSIVE Pow2(_)
Pow2(n) == IF n = 0 THEN 1 ELSE 2 * Pow2(n - 1)

\* Fraction bits of the grid: enough that no quotient of the model underflows.
FracBits == 2 * MantissaBits

\* The grid value of 1.
Scale == Pow2(FracBits)

MinOf(a, b) == IF a < b THEN a ELSE b

MaxOf(a, b) == IF a > b THEN a ELSE b

\* The first magnitude with more than MantissaBits significant bits.
MantissaEnd == Pow2(MantissaBits)

\* The spacing of representable numbers around magnitude q >= 0.
RECURSIVE UlpFrom(_, _)
UlpFrom(q, u) == IF q < u * MantissaEnd THEN u ELSE UlpFrom(q, 2 * u)

\* The rational n / d (d > 0) rounded to the nearest representable number,
\* ties to the even significand.
\* (a / d lies in [lo, lo + u], the two representable numbers next to it.)
RoundNearest(a, d, lo, u) ==
  IF \/ 2 * (a - lo * d) > u * d
     \/ 2 * (a - lo * d) = u * d /\ (lo \div u) % 2 = 1
  THEN lo + u
  ELSE lo

RoundMagnitude(a, d, u) == RoundNearest(a, d, ((a \div d) \div u) * u, u)

RoundRatio(n, d) ==
  IF n < 0 THEN -RoundMagnitude(-n, d, UlpFrom((-n) \div d, 1))
  ELSE RoundMagnitude(n, d, UlpFrom(n \div d, 1))

Representable(x) == RoundRatio(x, 1) = x

\* a + b
FAdd(a, b) == RoundRatio(a + b, 1)

\* a - b
FSub(a, b) == RoundRatio(a - b, 1)

\* a * b
FMul(a, b) == RoundRatio(a * b, Scale)

\* a / b, b > 0
FDiv(a, b) == RoundRatio(a * Scale, b)

\* Math.floor
Floor(x) == (x \div Scale) * Scale

---------------------------------------------------------------------------
(* JavaScript values *)

Undefined == [kind |-> "undefined"]

Null == [kind |-> "null"]

NaN == [kind |-> "NaN"]

Infinity == [kind |-> "Infinity"]

\* The finite number v / Scale
Num(v) == [kind |-> "number", val |-> v]

\* The whole number k
Int2Num(k) == Num(k * Scale)

Arr(items) == [kind |-> "array", items |-> items]

\* The string of the characters `chars`
Str(chars) == [kind |-> "string", chars |-> chars]

\* Truthiness (`!x`, `x || y`, `x ? a : b`)
Truthy(x) ==
  CASE x.kind = "undefined" -> FALSE
    [] x.kind = "null"      -> FALSE
    [] x.kind = "NaN"       -> FALSE
    [] x.kind = "number"    -> x.val # 0
    [] x.kind = "string"    -> x.chars # <<>>
    [] OTHER                -> TRUE

\* The value of a decimal digit, -1 for any other character.
DigitOf(c) ==
  CASE c = "0" -> 0 [] c = "1" -> 1 [] c = "2" -> 2 [] c = "3" -> 3
    [] c = "4" -> 4 [] c = "5" -> 5 [] c = "6" -> 6 [] c = "7" -> 7
    [] c = "8" -> 8 [] c = "9" -> 9 [] OTHER -> -1

\* The whole number written by the first n characters, all of them digits.
RECURSIVE DigitsValue(_, _)
DigitsValue(chars, n) ==
  IF n = 0 THEN 0 ELSE 10 * DigitsValue(chars, n - 1) + DigitOf(chars[n])

\* Number(s) of a string: 0 for "", the number for a string of digits, NaN
\* for a string that holds any other character.
StringToNumber(chars) ==
  IF \E i \in 1..Len(chars) : DigitOf(chars[i]) < 0 THEN NaN
  ELSE Num(RoundRatio(DigitsValue(chars, Len(chars)) * Scale, 1))

\* Number(x), for x undefined, null, a string or a number
ToNumber(x) ==
  CASE x.kind = "undefined" -> NaN
    [] x.kind = "null"      -> Num(0)
    [] x.kind = "string"    -> StringToNumber(x.chars)
    [] OTHER                -> x

\* x || 0
OrZero(x) == IF Truthy(x) THEN x ELSE Num(0)

\* Number.isFinite(x)
IsFinite(x) == x.kind = "number"

\* Array.isArray(x)
IsArray(x) == x.kind = "array"

\* segments || []
OrEmpty(x) == IF Truthy(x) THEN x.items ELSE <<>>

---------------------------------------------------------------------------
(* Pure utilities *)

DEFAULT_FPS == 30

\* clamp without its Math.min: the upper bound is not applied to a number.
clampNoUpper(value, min, max) ==
  IF value.kind = "Infinity" THEN max
  ELSE MaxOf(value.val, min)

\* Math.min(Math.max(value, min), max) for a number or Infinity `value` and
\* finite min, max; the result is finite.
clamp(value, min, max) ==
  IF value.kind = "Infinity" THEN max
  ELSE MinOf(MaxOf(value.val, min), max)

normalizeFps(value) ==
  IF IsFinite(ToNumber(value)) /\ ToNumber(value).val > 0
  THEN ToNumber(value).val
  ELSE DEFAULT_FPS * Scale

\* (bookmarks || []).find(entry => entry.id === bookmarkId), from entry i on
RECURSIVE FindById(_, _, _)
FindById(entries, i, bookmarkId) ==
  IF i > Len(entries) THEN Undefined
  ELSE IF entries[i].id = bookmarkId THEN entries[i]
  ELSE FindById(entries, i + 1, bookmarkId)

\* TimeOfMatch without Number.isFinite: the time of the match as it is.
TimeOfMatchUnchecked(match) ==
  IF ~Truthy(match) THEN Null ELSE match.time

\* The two returns of resolveBookmarkTime after the find.
TimeOfMatch(match) ==
  IF ~Truthy(match) THEN Null
  ELSE IF IsFinite(match.time) THEN match.time
  ELSE Null

resolveBookmarkTime(bookmarks, bookmarkId) ==
  IF ~Truthy(bookmarkId) THEN Null
  ELSE TimeOfMatch(FindById(OrEmpty(bookmarks), 1, bookmarkId))

\* frame / safeFps, frame being Math.max(0, Math.floor(n))
FrameOverFps(n, safeFps) ==
  IF n.kind = "Infinity" THEN Infinity
  ELSE Num(FDiv(MaxOf(0, Floor(n.val)), safeFps))

frameToTime(frameIndex, fps) ==
  FrameOverFps(OrZero(ToNumber(frameIndex)), normalizeFps(fps))

\* FloorTimeByFps without Math.max(0, ...): `Math.floor(n * safeFps)`.
FloorTimeByFpsUnclamped(n, safeFps) ==
  IF n.kind = "Infinity" THEN Infinity
  ELSE Num(Floor(FMul(n.val, safeFps)))

\* Math.floor(time * safeFps), time being Math.max(0, n)
FloorTimeByFps(n, safeFps) ==
  IF n.kind = "Infinity" THEN Infinity
  ELSE Num(Floor(FMul(MaxOf(0, n.val), safeFps)))

timeToFrame(timeSeconds, fps) ==
  FloorTimeByFps(OrZero(ToNumber(timeSeconds)), normalizeFps(fps))

\* The character of a decimal digit.
DigitChar(d) ==
  CASE d = 0 -> "0" [] d = 1 -> "1" [] d = 2 -> "2" [] d = 3 -> "3"
    [] d = 4 -> "4" [] d = 5 -> "5" [] d = 6 -> "6" [] d = 7 -> "7"
    [] d = 8 -> "8" [] OTHER -> "9"

\* `${n}` of a whole number n >= 0: its decimal digits.
RECURSIVE DecimalOf(_)
DecimalOf(n) ==
  IF n < 10 THEN <<DigitChar(n)>>
  ELSE Append(DecimalOf(n \div 10), DigitChar(n % 10))

\* `bm-${Date.now()}-${Math.floor(Math.random() * 1000)}`, `now` being the
\* clock's milliseconds and `draw` the floored random number.
BookmarkId(now, draw) ==
  Str(<<"b", "m", "-">> \o DecimalOf(now) \o <<"-">> \o DecimalOf(draw))

\* BookmarkTime without Math.max(0, ...): `Number(timeSeconds) || 0`.
BookmarkTimeUnclamped(n) == n

\* Math.max(0, n), n being Number(timeSeconds) || 0
BookmarkTime(n) ==
  IF n.kind = "Infinity" THEN Infinity ELSE Num(MaxOf(0, n.val))

\* The bookmark createBookmark returns, given its local `time`.
BookmarkAt(time, fps, imageDataUrl, now, draw) ==
  [kind |-> "object", id |-> BookmarkId(now, draw), time |-> time,
   frame |-> timeToFrame(time, fps),
   image |-> IF Truthy(imageDataUrl) THEN imageDataUrl ELSE Str(<<>>)]

\* createBookmark, `now` and `draw` being what Date.now() and
\* Math.floor(Math.random() * 1000) give during the call.
createBookmark(timeSeconds, fps, imageDataUrl, now, draw) ==
  BookmarkAt(BookmarkTime(OrZero(ToNumber(timeSeconds))), fps, imageDataUrl,
             now, draw)

\* 'video/webm'
FallbackMime ==
  Str(<<"v", "i", "d", "e", "o", "/", "w", "e", "b", "m">>)

\* typeof formatValue === 'string' && formatValue ? formatValue : fallback
RequestedOrFallback(formatValue) ==
  IF formatValue.kind = "string" /\ Truthy(formatValue) THEN formatValue
  ELSE FallbackMime

\* SupportedOrFallback without the question to MediaRecorder.
SupportedUnasked(mimeType, host) == mimeType

\* The mimeType after the question to MediaRecorder.isTypeSupported, asked
\* only of a host that has MediaRecorder and that function.
SupportedOrFallback(mimeType, host) ==
  IF /\ host.hasMediaRecorder
     /\ host.hasIsTypeSupported
     /\ mimeType \notin host.supported
  THEN FallbackMime
  ELSE mimeType

\* str.split(';')[0], from character i on: the characters before the first
\* ';'
RECURSIVE BeforeSemicolon(_, _)
BeforeSemicolon(chars, i) ==
  IF i > Len(chars) \/ chars[i] = ";" THEN SubSeq(chars, 1, i - 1)
  ELSE BeforeSemicolon(chars, i + 1)

\* part || fallback
PartOrFallback(part) == IF part # <<>> THEN Str(part) ELSE FallbackMime

\* { mimeType, baseType, extension: 'webm' }
ExportSettingsOf(mimeType) ==
  [mimeType |-> mimeType,
   baseType |-> PartOrFallback(BeforeSemicolon(mimeType.chars, 1)),
   extension |-> Str(<<"w", "e", "b", "m">>)]

\* getExportSettings on a host.
getExportSettings(formatValue, host) ==
  ExportSettingsOf(SupportedOrFallback(RequestedOrFallback(formatValue), host))

\* `seg-${Date.now()}-${Math.floor(Math.random() * 1000)}`
SegmentId(now, draw) ==
  Str(<<"s", "e", "g", "-">> \o DecimalOf(now) \o <<"-">> \o DecimalOf(draw))

\* Number(x) || 0 of a segment field that is undefined or a finite number
FieldOrZero(x) == OrZero(ToNumber(x)).val

\* DurationOf without Math.max(0, ...): `return full - start`.
DurationOfUnclamped(start, end, full) ==
  IF IsFinite(end) /\ end.val > start THEN FSub(end.val, start)
  ELSE FSub(full, start)

\* metadata?.duration
DurationOfMetadata(metadata) ==
  IF Truthy(metadata) THEN metadata.duration ELSE Undefined

\* SegmentOfDuration without `out: duration`: the clip has no out.
SegmentOfDurationNoOut(duration, now, draw) ==
  [kind |-> "object", id |-> SegmentId(now, draw), in |-> Int2Num(0),
   out |-> Undefined, duration |-> Num(duration)]

\* The segment createSegmentFromFile returns, given its local `duration`
\* (file, url and label are not read by the engine).
SegmentOfDuration(duration, now, draw) ==
  [kind |-> "object", id |-> SegmentId(now, draw), in |-> Int2Num(0),
   out |-> Num(duration), duration |-> Num(duration)]

\* createSegmentFromFile, `now` and `draw` being what Date.now() and
\* Math.floor(Math.random() * 1000) give during the call.
createSegmentFromFile(metadata, now, draw) ==
  SegmentOfDuration(FieldOrZero(DurationOfMetadata(metadata)), now, draw)

\* The two returns of computeSegmentDuration, given its three locals.
DurationOf(start, end, full) ==
  IF IsFinite(end) /\ end.val > start THEN FSub(end.val, start)
  ELSE MaxOf(0, FSub(full, start))

computeSegmentDuration(segment) ==
  IF ~Truthy(segment) THEN 0
  ELSE DurationOf(FieldOrZero(segment.in), ToNumber(segment.out),
                  FieldOrZero(segment.duration))

\* RangeOf with `end: duration` for `end: total`: the range ends at its own
\* length, not at the running total.
RangeOfOwnLength(segment, start, duration) ==
  [start |-> start, end |-> duration, duration |-> duration,
   segment |-> segment]

\* One pass of computeTimeline's forEach: `total += duration` and the range
\* pushed.
RangeOf(segment, start, duration) ==
  [start |-> start, end |-> FAdd(start, duration), duration |-> duration,
   segment |-> segment]

\* The forEach of computeTimeline over `items`, `ranges` being those pushed
\* so far and `total` the running total.
RECURSIVE TimelineRanges(_, _, _)
TimelineRanges(items, ranges, total) ==
  IF Len(ranges) = Len(items) THEN ranges
  ELSE TimelineRanges(
         items,
         Append(ranges, RangeOf(items[Len(ranges) + 1], total,
                                computeSegmentDuration(items[Len(ranges) + 1]))),
         FAdd(total, computeSegmentDuration(items[Len(ranges) + 1])))

\* { total, ranges } of the ranges pushed
TimelineOf(ranges) ==
  [total  |-> IF ranges = <<>> THEN 0 ELSE ranges[Len(ranges)].end,
   ranges |-> ranges]

computeTimeline(segments) ==
  TimelineOf(TimelineRanges(OrEmpty(segments), <<>>, 0))

\* ScanRanges with `clamped < range.end` for `clamped <= range.end`: a time
\* on a boundary goes to the later segment.
RECURSIVE ScanRangesStrict(_, _, _, _)
ScanRangesStrict(ranges, i, clamped, total) ==
  IF i > Len(ranges)
  THEN [index |-> -1, segment |-> Null, localTime |-> 0, offset |-> 0,
        time |-> clamped, total |-> total]
  ELSE IF clamped < ranges[i].end \/ i = Len(ranges)
  THEN [index |-> i - 1, segment |-> ranges[i].segment,
        localTime |-> FSub(clamped, ranges[i].start),
        offset |-> ranges[i].start, time |-> clamped, total |-> total]
  ELSE ScanRangesStrict(ranges, i + 1, clamped, total)

\* ScanRanges with `localTime = clamped` for `clamped - range.start`.
RECURSIVE ScanRangesLocalIsTime(_, _, _, _)
ScanRangesLocalIsTime(ranges, i, clamped, total) ==
  IF i > Len(ranges)
  THEN [index |-> -1, segment |-> Null, localTime |-> 0, offset |-> 0,
        time |-> clamped, total |-> total]
  ELSE IF clamped <= ranges[i].end \/ i = Len(ranges)
  THEN [index |-> i - 1, segment |-> ranges[i].segment,
        localTime |-> clamped,
        offset |-> ranges[i].start, time |-> clamped, total |-> total]
  ELSE ScanRangesLocalIsTime(ranges, i + 1, clamped, total)

\* The for loop of findSegmentAtTime from range i on (i counts from 1; the
\* returned index counts from 0 as in the source).
RECURSIVE ScanRanges(_, _, _, _)
ScanRanges(ranges, i, clamped, total) ==
  IF i > Len(ranges)
  THEN [index |-> -1, segment |-> Null, localTime |-> 0, offset |-> 0,
        time |-> clamped, total |-> total]
  ELSE IF clamped <= ranges[i].end \/ i = Len(ranges)
  THEN [index |-> i - 1, segment |-> ranges[i].segment,
        localTime |-> FSub(clamped, ranges[i].start),
        offset |-> ranges[i].start, time |-> clamped, total |-> total]
  ELSE ScanRanges(ranges, i + 1, clamped, total)

\* FindInTimeline with `index: 0` in the result for an empty timeline.
FindInTimelineIndexZero(tl, timeSeconds) ==
  IF Len(tl.ranges) = 0
  THEN [index |-> 0, segment |-> Null, localTime |-> 0, offset |-> 0,
        time |-> 0, total |-> 0]
  ELSE ScanRanges(tl.ranges, 1, clamp(OrZero(timeSeconds), 0, tl.total),
                  tl.total)

\* findSegmentAtTime once the timeline { total, ranges } is computed.
FindInTimeline(tl, timeSeconds) ==
  IF Len(tl.ranges) = 0
  THEN [index |-> -1, segment |-> Null, localTime |-> 0, offset |-> 0,
        time |-> 0, total |-> 0]
  ELSE ScanRanges(tl.ranges, 1, clamp(OrZero(timeSeconds), 0, tl.total),
                  tl.total)

findSegmentAtTime(segments, timeSeconds) ==
  FindInTimeline(computeTimeline(segments), timeSeconds)

\* PushTrimmed with `next.push({ ...segment })`: the copy keeps its out.
PushUntrimmed(next, segment, segIn, trimmedEnd) ==
  IF trimmedEnd > segIn THEN Append(next, segment) ELSE next

\* PushTrimmed without the push: the located segment is always dropped.
PushTrimmedNever(next, segment, segIn, trimmedEnd) == next

\* `next` after the trimmed copy of `segment` is pushed, or not.
PushTrimmed(next, segment, segIn, trimmedEnd) ==
  IF trimmedEnd > segIn
  THEN Append(next, [segment EXCEPT !.out = Num(trimmedEnd)])
  ELSE next

\* spliceSegments from the located segment f = { index, segment, localTime }.
SpliceFound(current, f, newSegment) ==
  IF ~Truthy(f.segment) \/ f.index < 0 THEN current
  ELSE Append(PushTrimmed(SubSeq(current, 1, f.index), f.segment,
                          FieldOrZero(f.segment.in),
                          FAdd(FieldOrZero(f.segment.in), f.localTime)),
              newSegment)

\* SpliceAt without the return of [newSegment] alone: a cut at 0 keeps the
\* first segment.
SpliceAtKeepsFirst(current, normalizedCut, newSegment) ==
  IF normalizedCut <= 0 THEN <<current[1], newSegment>>
  ELSE SpliceFound(current,
                   findSegmentAtTime(Arr(current), Num(normalizedCut)),
                   newSegment)

\* spliceSegments from the clamped cut.
SpliceAt(current, normalizedCut, newSegment) ==
  IF normalizedCut <= 0 THEN <<newSegment>>
  ELSE SpliceFound(current,
                   findSegmentAtTime(Arr(current), Num(normalizedCut)),
                   newSegment)

\* SpliceCurrent without `if (!newSegment) return current.slice()`.
SpliceCurrentUnguarded(current, cutTime, newSegment) ==
  IF Len(current) = 0
  THEN (IF Truthy(newSegment) THEN <<newSegment>> ELSE <<>>)
  ELSE SpliceAt(current,
                clamp(OrZero(cutTime), 0, computeTimeline(Arr(current)).total),
                newSegment)

\* spliceSegments of the array `current`.
SpliceCurrent(current, cutTime, newSegment) ==
  IF Len(current) = 0
  THEN (IF Truthy(newSegment) THEN <<newSegment>> ELSE <<>>)
  ELSE IF ~Truthy(newSegment) THEN current
  ELSE SpliceAt(current,
                clamp(OrZero(cutTime), 0, computeTimeline(Arr(current)).total),
                newSegment)

spliceSegments(segments, cutTime, newSegment) ==
  SpliceCurrent(IF IsArray(segments) THEN segments.items ELSE <<>>,
                cutTime, newSegment)

---------------------------------------------------------------------------
(* Bookmark arguments *)

MaxBookmarks == 2

Bookmark(id, time, frame, image) ==
  [kind |-> "object", id |-> id, time |-> time, frame |-> frame,
   image |-> image]

\* Bookmark ids, as strings.
IdA == Str(<<"b", "m", "1">>)

IdB == Str(<<"b", "m", "2">>)

IdMissing == Str(<<"b", "m">>)

\* Bookmarks with a time that is a number, 0, absent, NaN, Infinity or a
\* string.
BookmarkShapes ==
  { Bookmark(i, t, Int2Num(0), Str(<<>>)) :
      i \in {IdA, IdB},
      t \in {Int2Num(2), Int2Num(3), Int2Num(0), Undefined, NaN, Infinity,
             Str(<<"2">>)} }

BookmarkLists ==
  UNION { [1..n -> BookmarkShapes] : n \in 0..MaxBookmarks }

BookmarksArgs == { Arr(l) : l \in BookmarkLists } \cup {Undefined}

BookmarkIdArgs == {Undefined, Null, Str(<<>>), Int2Num(0), IdA, IdB, IdMissing}

\* The number of values Math.floor(Math.random() * 1000) can take.
RandomIds == 1000

\* A captured frame as a data URL.
ImageText == Str(<<"d", "a", "t", "a", ":">>)

ImageArgs == {Undefined, Str(<<>>), ImageText}

\* Readings of the clock and floored random numbers during a call.
ClockArgs == {0, 12}

DrawArgs == {0, RandomIds - 1}

\* Export formats asked for: 'video/webm;c', 'mp4', ';c' and 'video/webm'.
CodecMime == Str(FallbackMime.chars \o <<";", "c">>)

OtherMime == Str(<<"m", "p", "4">>)

BareCodecMime == Str(<<";", "c">>)

MimeTexts == {CodecMime, OtherMime, BareCodecMime, FallbackMime}

FormatArgs == {Undefined, Null, Int2Num(1), Str(<<>>)} \cup MimeTexts

\* Hosts: without MediaRecorder (as under Node), with a MediaRecorder that
\* has no isTypeSupported, and with one that supports a set of formats.
Hosts ==
  { [hasMediaRecorder |-> FALSE, hasIsTypeSupported |-> FALSE,
     supported |-> {}],
    [hasMediaRecorder |-> TRUE, hasIsTypeSupported |-> FALSE,
     supported |-> {}] } \cup
  { [hasMediaRecorder |-> TRUE, hasIsTypeSupported |-> TRUE,
     supported |-> m] : m \in SUBSET MimeTexts }

---------------------------------------------------------------------------
(* spliceSegments on the caller's objects *)

\* Memory is a sequence of cells; the address of a cell is its position, and 0
\* is the address of nothing (undefined).  An object cell is the object's
\* record; an array cell is Arr of the addresses of its elements.

\* The objects at the addresses `items`.
Deref(cells, items) == [i \in 1..Len(items) |-> cells[items[i]]]

\* A new array holding m.items: `[x]`, `[]`, `current.slice()`, and the array
\* `next` that is returned.
ArrayOnHeap(m) ==
  [cells |-> Append(m.cells, Arr(m.items)), at |-> Len(m.cells) + 1]

\* current.slice(0, n).map(seg => ({ ...seg })): a new object for each of the
\* first n of `items`, `next` being the addresses of those made so far.
RECURSIVE CopyItems(_, _, _, _)
CopyItems(cells, items, n, next) ==
  IF Len(next) = n THEN [cells |-> cells, items |-> next]
  ELSE CopyItems(Append(cells, cells[items[Len(next) + 1]]), items, n,
                 Append(next, Len(cells) + 1))

\* PushTrimmedOnHeap with `segment.out = trimmedEnd; next.push(segment)`: the
\* located segment itself is trimmed.
PushTrimmedInPlace(m, segmentAddr, segIn, trimmedEnd) ==
  IF trimmedEnd > segIn
  THEN [cells |-> [m.cells EXCEPT ![segmentAddr].out = Num(trimmedEnd)],
        items |-> Append(m.items, segmentAddr)]
  ELSE m

\* if (trimmedEnd > in) next.push({ ...segment, out: trimmedEnd })
PushTrimmedOnHeap(m, segmentAddr, segIn, trimmedEnd) ==
  IF trimmedEnd > segIn
  THEN [cells |-> Append(m.cells, [m.cells[segmentAddr] EXCEPT
                                     !.out = Num(trimmedEnd)]),
        items |-> Append(m.items, Len(m.cells) + 1)]
  ELSE m

\* next.push(newSegment)
PushOnHeap(m, addr) == [cells |-> m.cells, items |-> Append(m.items, addr)]

SpliceFoundOnHeap(cells, items, f, newAddr) ==
  IF ~Truthy(f.segment) \/ f.index < 0
  THEN ArrayOnHeap([cells |-> cells, items |-> items])
  ELSE ArrayOnHeap(
         PushOnHeap(
           PushTrimmedOnHeap(CopyItems(cells, items, f.index, <<>>),
                             items[f.index + 1],
                             FieldOrZero(f.segment.in),
                             FAdd(FieldOrZero(f.segment.in), f.localTime)),
           newAddr))

SpliceAtOnHeap(cells, items, normalizedCut, newAddr) ==
  IF normalizedCut <= 0
  THEN ArrayOnHeap([cells |-> cells, items |-> <<newAddr>>])
  ELSE SpliceFoundOnHeap(cells, items,
                         findSegmentAtTime(Arr(Deref(cells, items)),
                                           Num(normalizedCut)),
                         newAddr)

SpliceCurrentOnHeap(cells, items, cutTime, newAddr) ==
  IF Len(items) = 0
  THEN ArrayOnHeap([cells |-> cells,
                    items |-> IF newAddr # 0 THEN <<newAddr>> ELSE <<>>])
  ELSE IF newAddr = 0
  THEN ArrayOnHeap([cells |-> cells, items |-> items])
  ELSE SpliceAtOnHeap(cells, items,
                      clamp(OrZero(cutTime), 0,
                            computeTimeline(Arr(Deref(cells, items))).total),
                      newAddr)

\* spliceSegments on the array at segmentsAddr and the object at newAddr:
\* the cells after the call and the address of the array returned.
spliceSegmentsOnHeap(cells, segmentsAddr, cutTime, newAddr) ==
  SpliceCurrentOnHeap(cells,
                      IF segmentsAddr # 0 THEN cells[segmentsAddr].items
                      ELSE <<>>,
                      cutTime, newAddr)

---------------------------------------------------------------------------
(* The values a caller passes *)

Seg(id, in, out, duration) ==
  [kind |-> "object", id |-> id, in |-> in, out |-> out,
   duration |-> duration]

\* A clip as createSegmentFromFile builds it: in = 0, out = duration.
FileClip(id, seconds) ==
  Seg(id, Int2Num(0), Int2Num(seconds), Int2Num(seconds))

\* A clip length past the range where every whole number is representable.
LongSeconds == Pow2(MantissaBits) + 2

\* The segments of a caller's list, by shape (the id is set by SegmentLists):
\* clips as loaded from a file (one of them of length 0, as when the metadata
\* could not be read), a record with only a duration, a trimmed clip, and a
\* clip whose out is not past its in.
SegmentShapes ==
  { FileClip(0, 1), FileClip(0, 0), FileClip(0, LongSeconds),
    Seg(0, Undefined, Undefined, Int2Num(3)),
    Seg(0, Int2Num(1), Int2Num(3), Int2Num(LongSeconds)),
    Seg(0, Int2Num(3), Int2Num(1), Int2Num(LongSeconds)) }

\* The argument of computeSegmentDuration: no segment, a segment of a list,
\* a clip with an out that is Infinity or null, a clip whose in is past its
\* duration.
SegmentArgs ==
  {Undefined, Null} \cup SegmentShapes \cup
  { Seg(0, Int2Num(1), Infinity, Int2Num(3)),
    Seg(0, Undefined, Null, Int2Num(3)),
    Seg(0, Int2Num(3), Undefined, Int2Num(1)),
    Seg(0, Int2Num(3), Int2Num(3), Int2Num(1)) }

\* The lists of at most MaxSegments segments, the i-th with id i.
SegmentLists ==
  UNION { { [i \in 1..n |-> [f[i] EXCEPT !.id = i]] :
            f \in [1..n -> SegmentShapes] } : n \in 0..MaxSegments }

\* The `segments` argument: an array, or no array at all.
SegmentsArgs == { Arr(l) : l \in SegmentLists } \cup {Undefined}

\* The smallest time above 0.
TinyTime == Num(1)

\* Composite times: absent, before 0, just above 0, on and between whole
\* seconds, past the end of every list.
TimeArgs ==
  {Undefined, Infinity, TinyTime} \cup
  { Int2Num(t) : t \in {-1, 0, 1, 2, 3, 4, LongSeconds - 2, LongSeconds,
                        LongSeconds + 2, LongSeconds + 4} }

\* The replacement clip: absent, a clip of 2 seconds, a clip of length 0.
NewSegmentArgs == {Undefined, FileClip(0, 2), FileClip(0, 0)}

\* A string that is no number, and the text of a frame input.
NoNumberText == Str(<<"v">>)

FrameText == Str(<<"1", "2">>)

\* Frame indices: absent, negative, fractional, not numbers, Infinity, typed
\* into an input, and the whole numbers.
FrameArgs ==
  {Undefined, Int2Num(-1), Num(5 * (Scale \div 2)), NaN, Infinity,
   NoNumberText, FrameText} \cup
  { Int2Num(f) : f \in { k \in 0..MaxFrame : Representable(k) } }

FpsArgs ==
  {Undefined, Int2Num(0), Int2Num(-1), NaN, Infinity, NoNumberText} \cup
  { Int2Num(f) : f \in { k \in 1..MaxFps : Representable(k) } }

\* Times passed to timeToFrame: those of the timeline calls, a fractional
\* one, and values that are not numbers.
FrameTimeArgs ==
  TimeArgs \cup {NaN, NoNumberText, Num(5 * (Scale \div 2))}

\* The caller's memory before a call of spliceSegments: the elements of
\* `segments` at 1..n, the array itself after them, then `newSegment`.
ArgCells(segments, newSegment) ==
  (IF IsArray(segments)
   THEN Append(segments.items, Arr([i \in 1..Len(segments.items) |-> i]))
   ELSE <<>>)
  \o (IF Truthy(newSegment) THEN <<newSegment>> ELSE <<>>)

SegmentsAddr(segments) ==
  IF IsArray(segments) THEN Len(segments.items) + 1 ELSE 0

NewSegmentAddr(segments, newSegment) ==
  IF Truthy(newSegment) THEN SegmentsAddr(segments) + 1 ELSE 0

\* Memory as recorded with a call: the cells, where the two arguments are,
\* and where the returned array is.
HeapAfter(segments, newSegment, m) ==
  [cells |-> m.cells, segments |-> SegmentsAddr(segments),
   newSegment |-> NewSegmentAddr(segments, newSegment), result |-> m.at]

\* No object is passed to the call.
NoHeap == [cells |-> <<>>, segments |-> 0, newSegment |-> 0, result |-> 0]

\* The caller's memory before a call of resolveBookmarkTime: the bookmarks
\* at 1..n and the array after them.
ListCells(list) ==
  IF IsArray(list)
  THEN Append(list.items, Arr([i \in 1..Len(list.items) |-> i]))
  ELSE <<>>

\* resolveBookmarkTime writes to no object: memory after the call.
HeapOfBookmarks(bookmarks) ==
  [cells |-> ListCells(bookmarks), segments |-> 0, newSegment |-> 0,
   result |-> 0]

---------------------------------------------------------------------------
(* The caller *)

\* `const state = { ... }`
InitialState ==
  [segments |-> <<>>, fps |-> Int2Num(DEFAULT_FPS), bookmarks |-> <<>>,
   currentTime |-> Int2Num(0), activeIndex |-> 0, playing |-> FALSE,
   recording |-> FALSE]

\* The locals of createTimelineController
InitialController == [activeIndex |-> 0, segments |-> <<>>, playing |-> FALSE]

Init ==
  /\ op = "idle"
  /\ args = <<>>
  /\ ret = Undefined
  /\ heap = NoHeap
  /\ state = InitialState
  /\ controller = InitialController
  /\ clock = 0
  /\ pending = <<>>

CallSpliceSegments ==
  /\ op = "idle"
  /\ \E s \in SegmentsArgs, c \in TimeArgs, x \in NewSegmentArgs :
       /\ args' = [segments |-> s, cutTime |-> c, newSegment |-> x]
       /\ ret' = spliceSegments(s, c, x)
       /\ heap' = HeapAfter(s, x,
                            spliceSegmentsOnHeap(ArgCells(s, x),
                                                 SegmentsAddr(s), c,
                                                 NewSegmentAddr(s, x)))
  /\ op' = "spliceSegments"
  /\ UNCHANGED shell

CallFindSegmentAtTime ==
  /\ op = "idle"
  /\ \E s \in SegmentsArgs, t \in TimeArgs :
       /\ args' = [segments |-> s, timeSeconds |-> t]
       /\ ret' = findSegmentAtTime(s, t)
  /\ heap' = NoHeap
  /\ op' = "findSegmentAtTime"
  /\ UNCHANGED shell

CallResolveBookmarkTime ==
  /\ op = "idle"
  /\ \E b \in BookmarksArgs, i \in BookmarkIdArgs :
       /\ args' = [bookmarks |-> b, bookmarkId |-> i]
       /\ ret' = resolveBookmarkTime(b, i)
       /\ heap' = HeapOfBookmarks(b)
  /\ op' = "resolveBookmarkTime"
  /\ UNCHANGED shell

CallCreateBookmark ==
  /\ op = "idle"
  /\ \E t \in FrameTimeArgs, r \in FpsArgs, i \in ImageArgs,
        now \in ClockArgs, draw \in DrawArgs :
       /\ args' = [timeSeconds |-> t, fps |-> r, imageDataUrl |-> i]
       /\ ret' = createBookmark(t, r, i, now, draw)
  /\ heap' = NoHeap
  /\ op' = "createBookmark"
  /\ UNCHANGED shell

CallGetExportSettings ==
  /\ op = "idle"
  /\ \E f \in FormatArgs, h \in Hosts :
       /\ args' = [formatValue |-> f, host |-> h]
       /\ ret' = getExportSettings(f, h)
  /\ heap' = NoHeap
  /\ op' = "getExportSettings"
  /\ UNCHANGED shell

CallComputeSegmentDuration ==
  /\ op = "idle"
  /\ \E x \in SegmentArgs :
       /\ args' = [segment |-> x]
       /\ ret' = Num(computeSegmentDuration(x))
  /\ heap' = NoHeap
  /\ op' = "computeSegmentDuration"
  /\ UNCHANGED shell

CallComputeTimeline ==
  /\ op = "idle"
  /\ \E s \in SegmentsArgs :
       /\ args' = [segments |-> s]
       /\ ret' = computeTimeline(s)
  /\ heap' = NoHeap
  /\ op' = "computeTimeline"
  /\ UNCHANGED shell

CallFrameToTime ==
  /\ op = "idle"
  /\ \E f \in FrameArgs, r \in FpsArgs :
       /\ args' = [frameIndex |-> f, fps |-> r]
       /\ ret' = frameToTime(f, r)
  /\ heap' = NoHeap
  /\ op' = "frameToTime"
  /\ UNCHANGED shell

\* timeToFrame applied to what frameToTime returned, at the same fps.
CallTimeToFrame ==
  /\ op = "frameToTime"
  /\ args' = [frameIndex |-> args.frameIndex, fps |-> args.fps,
              timeSeconds |-> ret]
  /\ ret' = timeToFrame(ret, args.fps)
  /\ heap' = NoHeap
  /\ op' = "timeToFrame"
  /\ UNCHANGED shell

\* timeToFrame applied to a time of the caller's.
CallTimeToFrameOfTime ==
  /\ op = "idle"
  /\ \E t \in FrameTimeArgs, r \in FpsArgs :
       /\ args' = [frameIndex |-> Undefined, fps |-> r, timeSeconds |-> t]
       /\ ret' = timeToFrame(t, r)
  /\ heap' = NoHeap
  /\ op' = "timeToFrame"
  /\ UNCHANGED shell

\* The caller has read the result.
Return ==
  /\ op \notin {"idle", "frameToTime"}
  /\ op' = "idle"
  /\ args' = <<>>
  /\ ret' = Undefined
  /\ heap' = NoHeap
  /\ UNCHANGED shell

Next ==
  \/ CallSpliceSegments
  \/ CallFindSegmentAtTime
  \/ CallResolveBookmarkTime
  \/ CallCreateBookmark
  \/ CallGetExportSettings
  \/ CallComputeSegmentDuration
  \/ CallComputeTimeline
  \/ CallFrameToTime
  \/ CallTimeToFrame
  \/ CallTimeToFrameOfTime
  \/ Return

Spec == Init /\ [][Next]_vars

---------------------------------------------------------------------------
(* The application shell *)

\* Handlers that may wait at `await loadVideoMetadata(file)` at the same
\* time.  A waiting handler is a record: the handler, its local `cutTime`,
\* and `onCurrent`: state.segments is still the array it was when the handler
\* started (kept for handleReplacementVideo, which reads state.segments after
\* the await; handleBaseVideo does not).
MaxPending == 2

\* Milliseconds the clock advances during a session.
MaxClock == 1

\* What loadVideoMetadata resolves to: null (no metadata could be read), or
\* the duration of the file.
Metadata == {Null, [kind |-> "object", duration |-> Int2Num(LongSeconds)]}

\* Floored random numbers drawn during a session, for a bookmark and for a
\* segment: two ids of a session differ by their millisecond.
ShellDraws == {0}

SegmentDraws == {0}

\* Segments a session's list grows to; no frame is captured and no splice is
\* started on a list that long.
MaxSessionSegments == 3

\* Times the user moves the timeline slider to.
SliderTimes == { Int2Num(1) }

\* Times the user types into the time input: one past the end of every
\* timeline of a session.
TypedTimes == { Int2Num(MaxSessionSegments * LongSeconds) }

\* seq without its i-th element
RemoveAt(seq, i) == SubSeq(seq, 1, i - 1) \o SubSeq(seq, i + 1, Len(seq))

\* filter(entry => entry.id !== id)
RECURSIVE WithoutId(_, _)
WithoutId(entries, id) ==
  IF entries = <<>> THEN <<>>
  ELSE IF Head(entries).id = id THEN WithoutId(Tail(entries), id)
  ELSE <<Head(entries)>> \o WithoutId(Tail(entries), id)

\* The waiting handlers once the i-th of them has gone on and installed its
\* array as state.segments.
AfterInstall(waiting, i) ==
  [k \in 1..(Len(waiting) - 1) |->
     [RemoveAt(waiting, i)[k] EXCEPT
        !.onCurrent = (RemoveAt(waiting, i)[k].handler = "handleBaseVideo")]]

\* controller.setSegments(nextSegments)
SetSegments(c, nextSegments) ==
  [c EXCEPT !.segments = nextSegments, !.activeIndex = 0]

\* controller.seek(timeSeconds), up to its await: activeIndex = index
Seek(c, timeSeconds) ==
  IF Len(c.segments) = 0 THEN c
  ELSE [c EXCEPT !.activeIndex =
          findSegmentAtTime(Arr(c.segments), timeSeconds).index]

\* The clock goes on.
Tick ==
  /\ clock < MaxClock
  /\ clock' = clock + 1
  /\ UNCHANGED <<state, controller, pending>>

\* handleBaseVideo(file) up to `await loadVideoMetadata(file)`: the bookmarks
\* are cleared.
HandleBaseVideo ==
  /\ Len(pending) < MaxPending
  /\ state' = [state EXCEPT !.bookmarks = <<>>]
  /\ pending' = Append(pending, [handler |-> "handleBaseVideo",
                                  cutTime |-> Null,
                                  onCurrent |-> TRUE])
  /\ UNCHANGED <<controller, clock>>

\* handleBaseVideo from the metadata on: the new list of one segment is
\* installed.  What follows `await loadSegmentIntoVideo(...)` draws the page
\* from `state` and changes nothing of it.
BaseVideoMetadata ==
  \E i \in 1..Len(pending), meta \in Metadata, draw \in SegmentDraws :
    /\ pending[i].handler = "handleBaseVideo"
    /\ state' = [state EXCEPT
                   !.segments = <<createSegmentFromFile(meta, clock, draw)>>,
                   !.currentTime = Int2Num(0),
                   !.activeIndex = 0]
    /\ controller' =
         SetSegments(controller,
                     <<createSegmentFromFile(meta, clock, draw)>>)
    /\ pending' = AfterInstall(pending, i)
    /\ UNCHANGED clock

\* captureFrame(), the preview video showing a frame.
CaptureFrame ==
  /\ Len(state.segments) > 0
  /\ Len(state.segments) < MaxSessionSegments
  /\ Len(state.bookmarks) < MaxBookmarks
  /\ \E draw \in ShellDraws :
       state' = [state EXCEPT
                   !.bookmarks =
                     Append(state.bookmarks,
                            createBookmark(state.currentTime, state.fps,
                                           ImageText, clock, draw))]
  /\ UNCHANGED <<controller, clock, pending>>

\* handleReplacementVideo(file, bookmarkId) up to `await
\* loadVideoMetadata(file)`, for the upload input of a bookmark card that
\* resolves to a cut time.
HandleReplacementVideo ==
  /\ Len(pending) < MaxPending
  /\ Len(state.segments) < MaxSessionSegments
  /\ \E b \in 1..Len(state.bookmarks) :
       /\ resolveBookmarkTime(Arr(state.bookmarks), state.bookmarks[b].id)
            # Null
       /\ pending' =
            Append(pending,
                   [handler |-> "handleReplacementVideo",
                    cutTime |-> resolveBookmarkTime(Arr(state.bookmarks),
                                                    state.bookmarks[b].id),
                    onCurrent |-> TRUE])
  /\ UNCHANGED <<state, controller, clock>>

\* handleReplacementVideo from spliceSegments' result on: updateState,
\* controller.setSegments(state.segments), controller.seek(state.currentTime).
InstallSpliced(cutTime, nextSegments) ==
  /\ state' = [state EXCEPT
                 !.segments = nextSegments,
                 !.activeIndex = 0,
                 !.currentTime = OrZero(cutTime),
                 !.bookmarks = <<>>]
  /\ controller' =
       Seek(SetSegments(controller, nextSegments), OrZero(cutTime))

\* handleReplacementVideo from the metadata on: the spliced list is installed
\* and the bookmarks are cleared.  What follows `await controller.seek(...)`
\* draws the page from `state` and changes nothing of it.
ReplacementMetadata ==
  \E i \in 1..Len(pending), meta \in Metadata, draw \in SegmentDraws :
    /\ pending[i].handler = "handleReplacementVideo"
    /\ Len(state.segments) < MaxSessionSegments
    /\ InstallSpliced(pending[i].cutTime,
                      spliceSegments(Arr(state.segments), pending[i].cutTime,
                                     createSegmentFromFile(meta, clock, draw)))
    /\ pending' = AfterInstall(pending, i)
    /\ UNCHANGED clock

\* The `remove` button of a bookmark card.
RemoveBookmark ==
  /\ \E b \in 1..Len(state.bookmarks) :
       state' = [state EXCEPT
                   !.bookmarks = WithoutId(state.bookmarks,
                                           state.bookmarks[b].id)]
  /\ UNCHANGED <<controller, clock, pending>>

\* The `clear bookmarks` button.
ClearBookmarks ==
  /\ Len(state.bookmarks) > 0
  /\ state' = [state EXCEPT !.bookmarks = <<>>]
  /\ UNCHANGED <<controller, clock, pending>>

\* setCurrentTime from `clamped` on, up to the await in seek.
SeekTo(clamped) ==
  /\ state' = [state EXCEPT !.currentTime = clamped]
  /\ controller' = Seek(controller, clamped)

\* setCurrentTime(nextTime)
SetCurrentTime(nextTime) ==
  SeekTo(Num(clamp(OrZero(nextTime), 0,
                   computeTimeline(Arr(state.segments)).total)))

\* The timeline slider.
SliderInput ==
  /\ \E t \in SliderTimes : SetCurrentTime(t)
  /\ UNCHANGED <<clock, pending>>

\* The time input.
TimeInput ==
  /\ \E t \in TypedTimes : SetCurrentTime(t)
  /\ UNCHANGED <<clock, pending>>

ShellNext ==
  \/ Tick /\ UNCHANGED caller
  \/ HandleBaseVideo /\ UNCHANGED caller
  \/ BaseVideoMetadata /\ UNCHANGED caller
  \/ CaptureFrame /\ UNCHANGED caller
  \/ HandleReplacementVideo /\ UNCHANGED caller
  \/ ReplacementMetadata /\ UNCHANGED caller
  \/ RemoveBookmark /\ UNCHANGED caller
  \/ ClearBookmarks /\ UNCHANGED caller
  \/ SliderInput /\ UNCHANGED caller
  \/ TimeInput /\ UNCHANGED caller

ShellSpec == Init /\ [][ShellNext]_vars

---------------------------------------------------------------------------
(* The timeline controller *)

\* What video.currentTime is at a timeupdate event.
VideoTimes == { Int2Num(t) : t \in {0, 1, 3, LongSeconds} }

\* 0.02, the seconds before a segment's end at which sync takes it as ended.
EndSlack == RoundRatio(2 * Scale, 100)

\* Number(segment.out) || segment.duration || 0
SegmentEnd(segment) ==
  IF Truthy(ToNumber(segment.out)) THEN ToNumber(segment.out)
  ELSE OrZero(segment.duration)

\* video.currentTime >= segmentEnd - 0.02
AtSegmentEnd(videoTime, segmentEnd) ==
  /\ IsFinite(ToNumber(segmentEnd))
  /\ videoTime.val >= FSub(ToNumber(segmentEnd).val, EndSlack)

\* SyncAtEnd without `if (activeIndex < segments.length - 1)`: the index
\* always goes on.
SyncAtEndUnbounded(c) == [c EXCEPT !.activeIndex = @ + 1]

\* sync, the segment's end being reached.
SyncAtEnd(c) ==
  IF c.activeIndex < Len(c.segments) - 1
  THEN [c EXCEPT !.activeIndex = @ + 1]
  ELSE [c EXCEPT !.playing = FALSE]

\* sync(), video.currentTime being videoTime.
Sync(c, videoTime) ==
  IF Len(c.segments) = 0 THEN c
  ELSE IF c.activeIndex + 1 > Len(c.segments) THEN c
  ELSE IF ~Truthy(c.segments[c.activeIndex + 1]) THEN c
  ELSE IF AtSegmentEnd(videoTime, SegmentEnd(c.segments[c.activeIndex + 1]))
  THEN SyncAtEnd(c)
  ELSE c

\* play()
Play(c) == [c EXCEPT !.playing = TRUE]

\* pause()
Pause(c) == [c EXCEPT !.playing = FALSE]

\* A client calls setSegments(nextSegments).
CallSetSegments ==
  /\ \E s \in SegmentsArgs :
       controller' = SetSegments(controller,
                                 IF IsArray(s) THEN s.items ELSE <<>>)
  /\ UNCHANGED <<state, clock, pending>>

\* A client calls seek(timeSeconds), up to its await.
SeekAt(t) ==
  /\ controller' = Seek(controller, t)
  /\ UNCHANGED <<state, clock, pending>>

CallSeek == \E t \in TimeArgs : SeekAt(t)

CallPlay ==
  /\ controller' = Play(controller)
  /\ UNCHANGED <<state, clock, pending>>

CallPause ==
  /\ controller' = Pause(controller)
  /\ UNCHANGED <<state, clock, pending>>

\* The video fires timeupdate: sync() runs.
TimeUpdateAt(v) ==
  /\ controller' = Sync(controller, v)
  /\ UNCHANGED <<state, clock, pending>>

TimeUpdate == \E v \in VideoTimes : TimeUpdateAt(v)

ControllerNext ==
  \/ CallSetSegments /\ UNCHANGED caller
  \/ CallSeek /\ UNCHANGED caller
  \/ CallPlay /\ UNCHANGED caller
  \/ CallPause /\ UNCHANGED caller
  \/ TimeUpdate /\ UNCHANGED caller

ControllerSpec == Init /\ [][ControllerNext]_vars

---------------------------------------------------------------------------
(* What the claims speak of *)

\* The elements of the `segments` argument of the recorded call.
ArgItems == OrEmpty(args.segments)

\* The sum of the effective durations of the first n of `items`, added in
\* list order as the engine adds them.
RECURSIVE SumDurations(_, _)
SumDurations(items, n) ==
  IF n = 0 THEN 0
  ELSE FAdd(SumDurations(items, n - 1), computeSegmentDuration(items[n]))

\* A call of spliceSegments on a non-empty list with a replacement clip.
SpliceCall ==
  /\ op = "spliceSegments"
  /\ Len(ArgItems) > 0
  /\ Truthy(args.newSegment)

\* A call of findSegmentAtTime on a non-empty list.
FindCall ==
  /\ op = "findSegmentAtTime"
  /\ Len(ArgItems) > 0

---------------------------------------------------------------------------
(* C2 *)

\* C2: replace-all.  On a non-empty list and with a replacement clip X, a
\* cutTime that is absent, zero or negative makes spliceSegments return
\* exactly <<X>>.
C2_ReplaceAll ==
  (SpliceCall /\ (args.cutTime = Undefined
                    \/ (IsFinite(args.cutTime) /\ args.cutTime.val <= 0)))
    => ret = <<args.newSegment>>

C2_Witness ==
  /\ SpliceCall
  /\ Len(ArgItems) = MaxSegments
  /\ computeTimeline(args.segments).total > 0
  /\ args.cutTime = Int2Num(-1)
  /\ ret = <<args.newSegment>>

---------------------------------------------------------------------------
(* C6 *)

\* C6: on a non-empty list and for a time in [0, total], findSegmentAtTime
\* returns offset <= time <= offset + effectiveDuration(segment), localTime =
\* time - offset, and offset = the sum of the effective durations of the
\* segments before the returned index.
C6_FoundContainsTime ==
  (FindCall /\ IsFinite(args.timeSeconds)
            /\ 0 <= args.timeSeconds.val
            /\ args.timeSeconds.val <= computeTimeline(args.segments).total)
    => /\ ret.offset <= args.timeSeconds.val
       /\ args.timeSeconds.val
            <= FAdd(ret.offset, computeSegmentDuration(ret.segment))
       /\ ret.localTime = FSub(args.timeSeconds.val, ret.offset)
       /\ ret.offset = SumDurations(ArgItems, ret.index)

C6_Witness ==
  /\ FindCall
  /\ IsFinite(args.timeSeconds)
  /\ 0 < args.timeSeconds.val
  /\ args.timeSeconds.val < computeTimeline(args.segments).total
  /\ ret.index = 2
  /\ ret.offset > 0
  /\ ret.localTime > 0

---------------------------------------------------------------------------
(* C7 *)

\* C7: computeTimeline returns one range per segment, in input order, with
\* start_0 = 0, start_i = end_(i-1), end_i = start_i + effectiveDuration of
\* segment i, and total = the sum of the effective durations; 0 and no range
\* for an empty input.
C7_TimelineIsCumulative ==
  op = "computeTimeline"
    => /\ Len(ret.ranges) = Len(ArgItems)
       /\ \A i \in 1..Len(ArgItems) :
            /\ ret.ranges[i].segment = ArgItems[i]
            /\ ret.ranges[i].start
                 = (IF i = 1 THEN 0 ELSE ret.ranges[i - 1].end)
            /\ ret.ranges[i].end
                 = FAdd(ret.ranges[i].start,
                        computeSegmentDuration(ArgItems[i]))
       /\ ret.total = SumDurations(ArgItems, Len(ArgItems))
       /\ (Len(ArgItems) = 0 => ret.total = 0 /\ ret.ranges = <<>>)

C7_Witness ==
  /\ op = "computeTimeline"
  /\ Len(ArgItems) = MaxSegments
  /\ \A i \in 1..Len(ArgItems) : ret.ranges[i].end > ret.ranges[i].start
  /\ ret.total = ret.ranges[Len(ArgItems)].end

---------------------------------------------------------------------------
(* C10 *)

\* C10: degenerate inputs of spliceSegments.  With an empty list or no array
\* it returns <<newSegment>> when newSegment is present and <<>> when it is
\* absent; with a non-empty list and no newSegment it returns a list equal
\* to segments element for element, whatever the cutTime.
C10_DegenerateSplice ==
  op = "spliceSegments"
    => /\ (Len(ArgItems) = 0 /\ Truthy(args.newSegment))
            => ret = <<args.newSegment>>
       /\ (Len(ArgItems) = 0 /\ ~Truthy(args.newSegment)) => ret = <<>>
       /\ (Len(ArgItems) > 0 /\ ~Truthy(args.newSegment))
            => /\ Len(ret) = Len(ArgItems)
               /\ \A i \in 1..Len(ArgItems) : ret[i] = ArgItems[i]

C10_Witness ==
  /\ op = "spliceSegments"
  /\ Len(ArgItems) > 1
  /\ ~Truthy(args.newSegment)
  /\ IsFinite(args.cutTime)
  /\ 0 < args.cutTime.val
  /\ args.cutTime.val < computeTimeline(args.segments).total
  /\ ret = ArgItems

---------------------------------------------------------------------------
(* More of what the claims speak of *)

\* The timeline of the `segments` argument.
ArgTimeline == computeTimeline(args.segments)

\* The finite composite times the claims probe a timeline at.
ProbeTimes == { t \in TimeArgs : IsFinite(t) }

\* Two results of findSegmentAtTime that name the same place.
SamePlace(f, g) ==
  /\ f.index = g.index
  /\ f.segment.id = g.segment.id
  /\ f.localTime = g.localTime
  /\ f.offset = g.offset

\* The cut of a splice call is a number in (0, total].
CutInTimeline ==
  /\ SpliceCall
  /\ IsFinite(args.cutTime)
  /\ 0 < args.cutTime.val
  /\ args.cutTime.val <= ArgTimeline.total

\* The cut of a splice call is at or past the end of the timeline.
CutAtEnd ==
  /\ SpliceCall
  /\ \/ args.cutTime = Infinity
     \/ IsFinite(args.cutTime) /\ args.cutTime.val >= ArgTimeline.total

\* What findSegmentAtTime locates at the cut of a splice call.
CutPlace == findSegmentAtTime(args.segments, args.cutTime)

\* The cut of a splice call is strictly inside the segment it is located in.
CutInsideSegment ==
  /\ CutInTimeline
  /\ ArgTimeline.ranges[CutPlace.index + 1].start < args.cutTime.val
  /\ args.cutTime.val < ArgTimeline.ranges[CutPlace.index + 1].end

---------------------------------------------------------------------------
(* C1 *)

\* C1 as claimed: for a cut c in (0, total], every time t in [0, c] resolves
\* in the spliced list to the same index, segment id, localTime and offset
\* as in the input list, and no segment placed after the located one is in
\* the result.
C1_PrefixPreserved ==
  CutInTimeline
    => /\ \A t \in ProbeTimes :
            (0 <= t.val /\ t.val <= args.cutTime.val)
              => SamePlace(findSegmentAtTime(Arr(ret), t),
                           findSegmentAtTime(args.segments, t))
       /\ \A j \in 1..Len(ArgItems), k \in 1..Len(ret) :
            j > CutPlace.index + 1 => ret[k].id # ArgItems[j].id

---------------------------------------------------------------------------
(* C3 *)

\* Every segment of the list is a clip as loaded from a file (in = 0, out =
\* duration) and lasts longer than 0.
FileClipsOnly ==
  \A i \in 1..Len(ArgItems) :
    /\ ArgItems[i].in = Int2Num(0)
    /\ ArgItems[i].out = ArgItems[i].duration
    /\ IsFinite(ArgItems[i].out)
    /\ ArgItems[i].out.val > 0

\* C3 as claimed, on lists of file clips of positive length: a cut at or past
\* total returns the n input segments, every field unchanged (`out` too),
\* followed by the replacement clip.
C3_AppendAtEnd ==
  (CutAtEnd /\ FileClipsOnly)
    => /\ Len(ret) = Len(ArgItems) + 1
       /\ \A i \in 1..Len(ArgItems) : ret[i] = ArgItems[i]
       /\ ret[Len(ret)] = args.newSegment

---------------------------------------------------------------------------
(* C4 *)

\* C4 as claimed: for a cut strictly inside the located segment i, the
\* result up to and including the trimmed copy of segment i lasts exactly
\* cutTime, and the copy has out = in + localTime.
C4_PrefixLastsCutTime ==
  CutInsideSegment
    => /\ Len(ret) = CutPlace.index + 2
       /\ ret[CutPlace.index + 1]
            = [ArgItems[CutPlace.index + 1] EXCEPT
                 !.out = Num(FAdd(FieldOrZero(ArgItems[CutPlace.index + 1].in),
                                  CutPlace.localTime))]
       /\ SumDurations(ret, CutPlace.index + 1) = args.cutTime.val

---------------------------------------------------------------------------
(* C5 *)

---------------------------------------------------------------------------
(* C8 *)

\* C8 as claimed: for every fps > 0 and every whole frame f >= 0,
\* timeToFrame(frameToTime(f, fps), fps) = f.
C8_RoundTrip ==
  (/\ op = "timeToFrame"
   /\ IsFinite(args.fps) /\ args.fps.val > 0
   /\ IsFinite(args.frameIndex) /\ args.frameIndex.val >= 0
   /\ Floor(args.frameIndex.val) = args.frameIndex.val)
    => ret = args.frameIndex

---------------------------------------------------------------------------
(* C9 *)

---------------------------------------------------------------------------
(* C11 *)

\* C11: spliceSegments never changes its inputs.  After any call the input
\* array has the same length and the same elements, every input segment (and
\* the replacement clip) has the field values it had before the call, and the
\* array returned is another array than the input array.
C11_InputsUnchanged ==
  op = "spliceSegments"
    => /\ IsArray(args.segments)
            => /\ heap.cells[heap.segments]
                    = Arr([i \in 1..Len(ArgItems) |-> i])
               /\ \A i \in 1..Len(ArgItems) : heap.cells[i] = ArgItems[i]
       /\ Truthy(args.newSegment)
            => heap.cells[heap.newSegment] = args.newSegment
       /\ heap.result # heap.segments
       /\ heap.result \in 1..Len(heap.cells)

\* A cut inside the second segment: the result holds a trimmed copy of it, a
\* copy of the first segment and the replacement clip itself, and is the list
\* that spliceSegments returns.
C11_Witness ==
  /\ CutInsideSegment
  /\ CutPlace.index = 1
  /\ Deref(heap.cells, heap.cells[heap.result].items) = ret
  /\ ret[2].out # ArgItems[2].out
  /\ heap.cells[2] = ArgItems[2]
  /\ heap.cells[heap.result].items[1] # 1
  /\ heap.cells[heap.result].items[2] # 2
  /\ heap.cells[heap.result].items[3] = heap.newSegment

---------------------------------------------------------------------------
(* C13 *)

\* The bookmarks of the recorded call of resolveBookmarkTime.
ArgBookmarks == OrEmpty(args.bookmarks)

\* The positions of the bookmarks that have the id asked for.
MatchingBookmarks ==
  { i \in 1..Len(ArgBookmarks) : ArgBookmarks[i].id = args.bookmarkId }

\* The bookmark with the id asked for (the first one, should two share it).
TheMatch ==
  ArgBookmarks[CHOOSE i \in MatchingBookmarks :
                 \A j \in MatchingBookmarks : i <= j]

\* C13: resolveBookmarkTime returns null when the id is falsy or absent, when
\* no bookmark of the list has that id, or when the time of the bookmark with
\* that id is not a finite number; otherwise it returns exactly that time; the
\* bookmark list and its bookmarks are as before the call.
C13_ResolveBookmarkTime ==
  op = "resolveBookmarkTime"
    => /\ ret = (IF \/ ~Truthy(args.bookmarkId)
                    \/ MatchingBookmarks = {}
                    \/ ~IsFinite(TheMatch.time)
                 THEN Null
                 ELSE TheMatch.time)
       /\ IsArray(args.bookmarks)
            => /\ heap.cells[Len(ArgBookmarks) + 1]
                    = Arr([i \in 1..Len(ArgBookmarks) |-> i])
               /\ \A i \in 1..Len(ArgBookmarks) :
                    heap.cells[i] = ArgBookmarks[i]

\* The second of two bookmarks is the one asked for, and its time comes back.
C13_Witness ==
  /\ op = "resolveBookmarkTime"
  /\ Len(ArgBookmarks) = 2
  /\ MatchingBookmarks = {2}
  /\ ArgBookmarks[1].time = Infinity
  /\ ret = Int2Num(3)
  /\ heap.cells[2] = ArgBookmarks[2]

---------------------------------------------------------------------------
(* C14 *)

\* A call of computeSegmentDuration on a segment (not null, not absent).
DurationCall ==
  /\ op = "computeSegmentDuration"
  /\ Truthy(args.segment)

\* `in` of the segment of the call, 0 when absent.
ArgIn == FieldOrZero(args.segment.in)

\* max(0, duration - in) of the segment of the call.
RestOfClip == Num(MaxOf(0, FSub(FieldOrZero(args.segment.duration), ArgIn)))

\* C14 as claimed: computeSegmentDuration returns out - in when out is
\* present and out > in, otherwise max(0, duration - in); 0 for a null or
\* absent segment; and a result >= 0 for every segment.
C14_DurationWhenOutPresent ==
  /\ DurationCall
       => /\ args.segment.out = Infinity => ret = Infinity
          /\ (IsFinite(args.segment.out) /\ args.segment.out.val > ArgIn)
               => ret = Num(FSub(args.segment.out.val, ArgIn))
          /\ (args.segment.out \in {Undefined, Null}
                 \/ (IsFinite(args.segment.out)
                       /\ args.segment.out.val <= ArgIn))
               => ret = RestOfClip
  /\ (op = "computeSegmentDuration" /\ ~Truthy(args.segment)) => ret = Num(0)
  /\ op = "computeSegmentDuration" => IsFinite(ret) /\ ret.val >= 0

\* C14 as amended: computeSegmentDuration returns out - in when out is a
\* finite number and out > in (in counting as 0 when absent), otherwise, an
\* out of Infinity included, max(0, duration - in); 0 for a null or absent
\* segment; and a result >= 0 for every segment whose in and duration are
\* finite or absent.
C14_DurationWhenOutFinite ==
  /\ DurationCall
       => ret = (IF IsFinite(ToNumber(args.segment.out))
                      /\ ToNumber(args.segment.out).val > ArgIn
                 THEN Num(FSub(ToNumber(args.segment.out).val, ArgIn))
                 ELSE RestOfClip)
  /\ (op = "computeSegmentDuration" /\ ~Truthy(args.segment)) => ret = Num(0)
  /\ op = "computeSegmentDuration" => IsFinite(ret) /\ ret.val >= 0

\* A clip whose out is Infinity lasts from its in to its duration.
C14_Witness ==
  /\ DurationCall
  /\ args.segment.out = Infinity
  /\ args.segment.in = Int2Num(1)
  /\ ret = Int2Num(2)

---------------------------------------------------------------------------
(* C15 *)

\* An fps that is absent, not finite, zero or negative.
UnusableFps(x) ==
  \/ x = Undefined
  \/ ~IsFinite(ToNumber(x))
  \/ ToNumber(x).val <= 0

\* A frame or time that is negative or not a number.
NegativeOrNoNumber(x) ==
  \/ ToNumber(x) = NaN
  \/ IsFinite(ToNumber(x)) /\ ToNumber(x).val < 0

\* A whole number.
IsWhole(x) == IsFinite(x) /\ Floor(x.val) = x.val

\* Not below 0.
NotNegative(x) == x = Infinity \/ (IsFinite(x) /\ x.val >= 0)

\* The defaults of frameToTime and timeToFrame: an unusable fps counts as 30,
\* a negative or non-numeric frame or time as 0, and frameToTime floors its
\* frame.
FrameTimeDefaults ==
  /\ op = "frameToTime"
       => /\ UnusableFps(args.fps)
               => ret = frameToTime(args.frameIndex, Int2Num(30))
          /\ NegativeOrNoNumber(args.frameIndex)
               => ret = frameToTime(Int2Num(0), args.fps) /\ ret = Num(0)
          /\ IsFinite(ToNumber(args.frameIndex))
               => ret = frameToTime(Num(Floor(ToNumber(args.frameIndex).val)),
                                    args.fps)
  /\ op = "timeToFrame"
       => /\ UnusableFps(args.fps)
               => ret = timeToFrame(args.timeSeconds, Int2Num(30))
          /\ NegativeOrNoNumber(args.timeSeconds)
               => ret = timeToFrame(Int2Num(0), args.fps) /\ ret = Num(0)

---------------------------------------------------------------------------
(* C16 *)

\* C16: on an empty segment list (or no list) findSegmentAtTime returns
\* {index: -1, segment: null, localTime: 0, offset: 0, time: 0, total: 0},
\* whatever the time.
C16_EmptyListSentinel ==
  (op = "findSegmentAtTime" /\ Len(ArgItems) = 0)
    => ret = [index |-> -1, segment |-> Null, localTime |-> 0, offset |-> 0,
              time |-> 0, total |-> 0]

C16_Witness ==
  /\ op = "findSegmentAtTime"
  /\ args.segments = Arr(<<>>)
  /\ args.timeSeconds = Int2Num(3)
  /\ ret.index = -1
  /\ ret.segment = Null
  /\ ret.time = 0

---------------------------------------------------------------------------
(* C17 *)

\* The time argument of the recorded createBookmark call, as a number and not
\* below 0 (0 when it is no number).
ArgTimeNotBelowZero ==
  IF ToNumber(args.timeSeconds) = Infinity THEN Infinity
  ELSE IF IsFinite(ToNumber(args.timeSeconds))
          /\ ToNumber(args.timeSeconds).val > 0
  THEN ToNumber(args.timeSeconds)
  ELSE Num(0)

\* C17: createBookmark returns a bookmark whose time is the input clamped to
\* >= 0, whose frame is timeToFrame of that time at the given fps, and whose
\* image is the given image, or the empty string when the image is absent.
C17_BookmarkFields ==
  op = "createBookmark"
    => /\ ret.time = ArgTimeNotBelowZero
       /\ ret.frame = timeToFrame(ArgTimeNotBelowZero, args.fps)
       /\ ret.image = (IF args.imageDataUrl \in {Undefined, Str(<<>>)}
                       THEN Str(<<>>)
                       ELSE args.imageDataUrl)

\* A bookmark at 2.5 s and 3 fps with an image: frame 7.
C17_Witness ==
  /\ op = "createBookmark"
  /\ args.timeSeconds = Num(5 * (Scale \div 2))
  /\ args.fps = Int2Num(3)
  /\ args.imageDataUrl = ImageText
  /\ ret.time = args.timeSeconds
  /\ ret.frame = Int2Num(7)
  /\ ret.image = ImageText

---------------------------------------------------------------------------
(* C18 *)

\* The format asked for is a string that is not empty.
FormatGiven ==
  args.formatValue.kind = "string" /\ args.formatValue.chars # <<>>

\* The host answers that it does not support the format asked for.
HostRejects ==
  /\ args.host.hasMediaRecorder
  /\ args.host.hasIsTypeSupported
  /\ args.formatValue \notin args.host.supported

\* The positions of ';' in the returned mimeType.
Semicolons ==
  { i \in 1..Len(ret.mimeType.chars) : ret.mimeType.chars[i] = ";" }

\* The part of the returned mimeType before its first ';'.
PartBeforeSemicolon ==
  IF Semicolons = {} THEN ret.mimeType.chars
  ELSE SubSeq(ret.mimeType.chars, 1,
              (CHOOSE i \in Semicolons : \A j \in Semicolons : i <= j) - 1)

\* The mimeType and the extension of the claim: the format asked for when it
\* is a non-empty string the host does not reject, 'video/webm' otherwise;
\* the extension is 'webm'.
MimeTypeAndExtension ==
  /\ ret.mimeType = (IF FormatGiven /\ ~HostRejects THEN args.formatValue
                      ELSE FallbackMime)
  /\ ret.extension = Str(<<"w", "e", "b", "m">>)

\* C18 as claimed: the mimeType and extension above, and baseType is always
\* the part of mimeType before the first ';'.
C18_BaseTypeIsPartBefore ==
  op = "getExportSettings"
    => /\ MimeTypeAndExtension
       /\ ret.baseType = Str(PartBeforeSemicolon)

\* C18 as amended: the mimeType and extension above, and baseType is the part
\* of mimeType before the first ';', or 'video/webm' when that part is empty.
C18_BaseTypeOrFallback ==
  op = "getExportSettings"
    => /\ MimeTypeAndExtension
       /\ ret.baseType = (IF PartBeforeSemicolon = <<>> THEN FallbackMime
                          ELSE Str(PartBeforeSemicolon))

\* On a host without MediaRecorder ';c' is returned as asked for, with
\* baseType 'video/webm'.
C18_Witness ==
  /\ op = "getExportSettings"
  /\ ~args.host.hasMediaRecorder
  /\ args.formatValue = BareCodecMime
  /\ ret.mimeType = BareCodecMime
  /\ ret.baseType = FallbackMime

---------------------------------------------------------------------------
(* C19 *)

\* The cut of a splice call is the start of the k-th segment of the list
\* (k counts from 1 here: segments 1..k-1 lie before the cut).
CutAtStartOf(k) ==
  /\ SpliceCall
  /\ k \in 2..Len(ArgItems)
  /\ args.cutTime = Num(ArgTimeline.ranges[k].start)

\* No segment of the list from the k-th on is in the result.
NothingFrom(k) ==
  \A j \in k..Len(ArgItems), i \in 1..Len(ret) : ret[i].id # ArgItems[j].id

\* C19 as claimed: a cut at the start of segment k returns copies of the
\* segments before k, each with its full effective duration, followed by the
\* replacement clip; nothing of segment k or of a later segment is in the
\* result.
C19_BoundaryKeepsAllBefore ==
  \A k \in 2..MaxSegments :
    CutAtStartOf(k)
      => /\ Len(ret) = k
         /\ \A i \in 1..(k - 1) :
              /\ ret[i].id = ArgItems[i].id
              /\ computeSegmentDuration(ret[i])
                   = computeSegmentDuration(ArgItems[i])
         /\ ret[k] = args.newSegment
         /\ NothingFrom(k)

\* C19 as amended: a cut at the start of segment k returns nothing of segment
\* k or of a later segment and ends with the replacement clip; when the
\* segment before k has a range that is not empty, the result is the segments
\* before it unchanged, then a copy of it with out = in + (start_k -
\* start_(k-1)), then the replacement clip.
C19_BoundaryTrimsSegmentBefore ==
  \A k \in 2..MaxSegments :
    CutAtStartOf(k)
      => /\ NothingFrom(k)
         /\ ret[Len(ret)] = args.newSegment
         /\ ArgTimeline.ranges[k].start > ArgTimeline.ranges[k - 1].start
              => /\ Len(ret) = k
                 /\ \A i \in 1..(k - 2) : ret[i] = ArgItems[i]
                 /\ ret[k - 1]
                      = [ArgItems[k - 1] EXCEPT
                           !.out = Num(FAdd(FieldOrZero(ArgItems[k - 1].in),
                                            FSub(ArgTimeline.ranges[k].start,
                                                 ArgTimeline.ranges[k - 1]
                                                   .start)))]

\* A cut at the start of the third segment, the second one being a clip
\* without an out: the result holds the first segment, a copy of the second
\* with the out the cut gives it, and the replacement clip.
C19_Witness ==
  /\ CutAtStartOf(3)
  /\ ArgTimeline.ranges[3].start > ArgTimeline.ranges[2].start
  /\ Len(ret) = 3
  /\ ret[1] = ArgItems[1]
  /\ ArgItems[2].out = Undefined
  /\ ret[2].out = Int2Num(3)
  /\ ret[3] = args.newSegment

---------------------------------------------------------------------------
(* C12 *)

\* C12 as claimed: any two bookmarks of the session, each made by its own
\* createBookmark call, have different ids.
C12_BookmarkIdsUnique ==
  \A i, j \in 1..Len(state.bookmarks) :
    i # j => state.bookmarks[i].id # state.bookmarks[j].id

---------------------------------------------------------------------------
(* C20 *)

\* C20 as claimed: whenever a new segment list is installed (by a base-clip
\* load or by a splice), the bookmark collection is empty.
C20_NoBookmarksAtInstall ==
  [][state'.segments # state.segments => state'.bookmarks = <<>>]_vars

---------------------------------------------------------------------------
(* C21 *)

\* The handlers that have started and have not yet installed their segment
\* list: they wait for the metadata of their file.
InFlight == 1..Len(pending)

\* C21: at any time at most one handleBaseVideo or handleReplacementVideo is
\* between its start and its installation of the new segment list.
C21_EditsSerialized == Cardinality(InFlight) <= 1

---------------------------------------------------------------------------
(* C22 *)

\* The step of the i-th waiting handler, a handleReplacementVideo, from the
\* metadata on: spliceSegments(state.segments, cutTime, segment) is called.
SplicesNow(i) ==
  /\ pending[i].handler = "handleReplacementVideo"
  /\ pending' = AfterInstall(pending, i)

\* C22: the segment list handleReplacementVideo passes to spliceSegments after
\* the await is the list that was current when its cut time was resolved.
C22_SpliceOnListOfCut ==
  [][\A i \in 1..Len(pending) :
       SplicesNow(i) => pending[i].onCurrent]_vars

---------------------------------------------------------------------------
(* C23 *)

\* The cut of a splice call as spliceSegments normalizes it.
ClampedCut == clamp(OrZero(args.cutTime), 0, ArgTimeline.total)

\* C23 as claimed: on a non-empty list and with a replacement clip X, the
\* result of spliceSegments lasts clamp(cutTime, 0, total) + the effective
\* duration of X, and its part before X lasts exactly the clamped cut.
C23_TotalIsCutPlusNew ==
  SpliceCall
    => /\ computeTimeline(Arr(ret)).total
            = FAdd(ClampedCut, computeSegmentDuration(args.newSegment))
       /\ SumDurations(ret, Len(ret) - 1) = ClampedCut

---------------------------------------------------------------------------
(* C24 *)

\* A call of spliceSegments that reaches the replace-tail step.
ReplaceTail == SpliceCall /\ ClampedCut > 0

\* What spliceSegments locates at the clamped cut.
TailPlace == findSegmentAtTime(args.segments, Num(ClampedCut))

\* The `in` of the located segment, as spliceSegments reads it.
TailIn == FieldOrZero(TailPlace.segment.in)

\* C24 as claimed: in the replace-tail step the located localTime is above 0,
\* the trimmed copy of the located segment is always included (the result has
\* index + 2 elements) and the last element is newSegment.
C24_TrimmedAlwaysKept ==
  ReplaceTail
    => /\ TailPlace.localTime > 0
       /\ Len(ret) = TailPlace.index + 2
       /\ ret[Len(ret)] = args.newSegment

\* C24 as amended: in the replace-tail step the located localTime is above 0
\* and the last element is newSegment; the trimmed copy is included (index +
\* 2 elements) whenever the located segment's in is 0, and is left out (index
\* + 1 elements) only when in is above 0 and in + localTime rounds to in.
C24_TrimmedKeptUnlessAbsorbed ==
  ReplaceTail
    => /\ TailPlace.localTime > 0
       /\ ret[Len(ret)] = args.newSegment
       /\ Len(ret) \in {TailPlace.index + 1, TailPlace.index + 2}
       /\ TailIn = 0 => Len(ret) = TailPlace.index + 2
       /\ Len(ret) = TailPlace.index + 1
            => /\ TailIn > 0
               /\ FAdd(TailIn, TailPlace.localTime) = TailIn

C24_Witness ==
  /\ ReplaceTail
  /\ TailPlace.index = 1
  /\ TailPlace.localTime > 0
  /\ TailIn > 0
  /\ Len(ret) = 2
  /\ ret[2] = args.newSegment

---------------------------------------------------------------------------
(* C25 *)

\* in, out and duration of the segment are numbers with 0 <= in <= out.
TrimInOrder(segment) ==
  /\ IsFinite(segment.in) /\ IsFinite(segment.out)
  /\ IsFinite(segment.duration)
  /\ 0 <= segment.in.val
  /\ segment.in.val <= segment.out.val

\* 0 <= in <= out <= duration
WellFormed(segment) ==
  /\ TrimInOrder(segment)
  /\ segment.out.val <= segment.duration.val

\* The ids of the segments of `list`.
IdsOf(list) == { list[i].id : i \in 1..Len(list) }

\* No two segments of `list` have the same id.
DistinctIds(list) == Cardinality(IdsOf(list)) = Len(list)

\* A step that installs a segment list whose new segment, the last one, has
\* an id that no segment of the list before has, leaves the ids distinct if
\* they were.
FreshIdKeepsDistinct ==
  (/\ state'.segments # state.segments
   /\ DistinctIds(state.segments)
   /\ state'.segments[Len(state'.segments)].id \notin IdsOf(state.segments))
    => DistinctIds(state'.segments)

---------------------------------------------------------------------------
(* C26 *)

\* The controller's activeIndex is an index of its list.
ActiveIndexValid ==
  controller.activeIndex \in 0..(Len(controller.segments) - 1)

\* The controller is on the last segment of its list.
OnLastSegment == controller.activeIndex = Len(controller.segments) - 1

\* video.currentTime = v has reached the end of the controller's segment.
EndReached(v) ==
  AtSegmentEnd(v, SegmentEnd(controller.segments[controller.activeIndex + 1]))

\* What a timeupdate at video.currentTime = v does to a controller with a
\* non-empty list: one step on at the end of a segment that is not the last,
\* playing off and no step at the end of the last, nothing otherwise.
SyncAsClaimed(v) ==
  /\ controller'.segments = controller.segments
  /\ (EndReached(v) /\ ~OnLastSegment)
       => /\ controller'.activeIndex = controller.activeIndex + 1
          /\ controller'.playing = controller.playing
  /\ (EndReached(v) /\ OnLastSegment)
       => /\ controller'.activeIndex = controller.activeIndex
          /\ ~controller'.playing
  /\ ~EndReached(v) => controller' = controller

\* The step leaves the controller's list as it is.
SameList == controller'.segments = controller.segments

\* C26: whenever the controller's list is non-empty (it is empty at first),
\* activeIndex is a valid index into it after every step; setSegments (the
\* one operation that changes the list) resets it to 0, seek sets it to the
\* index findSegmentAtTime resolves, and
\* sync goes one on only at the end of a segment that is not the last, and at
\* the end of the last one sets playing to false without going on.
C26_ActiveIndexValid ==
  /\ [][Len(controller'.segments) > 0 => ActiveIndexValid']_vars
  /\ [][~SameList => controller'.activeIndex = 0]_vars
  /\ [][\A t \in TimeArgs :
          (SameList /\ Len(controller.segments) > 0 /\ SeekAt(t))
            => controller'.activeIndex
                 = findSegmentAtTime(Arr(controller.segments), t).index]_vars
  /\ [][\A v \in VideoTimes :
          (SameList /\ Len(controller.segments) > 0 /\ TimeUpdateAt(v))
            => SyncAsClaimed(v)]_vars

C26_Witness ==
  /\ Len(controller.segments) = MaxSegments
  /\ OnLastSegment
  /\ controller.playing
  /\ EndReached(Int2Num(LongSeconds))

=============================================================================
